---- MODULE Spec2Model ----
(***************************************************************************)
(* gitcop: bounded-concurrency sync / pull of a registry of repositories.  *)
(*                                                                         *)
(* The model follows src/cmd/sync.rs (sync, BoundedSync, sync_one),        *)
(* src/cmd/pull.rs (pull), src/cmd/common.rs (BoundedProc, join_handles),  *)
(* src/config.rs (Config::repos, ReposIter), src/git.rs (process_output)   *)
(* and src/main.rs (main).                                                 *)
(*                                                                         *)
(* One run of the program is one behaviour: Init draws the command line    *)
(* (sync with or without names, pull with directories), the registry, the  *)
(* directories that exist and the number of permits of the semaphore.      *)
(* The main thread scans its targets and spawns one task per target on    *)
(* the thread pool; the pool polls the tasks; an external actor may create *)
(* or remove directories while the run is in progress.                     *)
(*                                                                         *)
(* Spec starts a run after a successful load of the configuration file.    *)
(* SpecLoad starts it at main's load_config (src/config.rs parse_config,   *)
(* src/config/internal.rs), and SpecParse applies the configuration        *)
(* functions on their own to every argument within the bounds.             *)
(***************************************************************************)
EXTENDS Integers, Sequences, FiniteSets, TLC

VARIABLES
    file,       \* the contents of .gitcop.toml, as toml::from_str reads them
    conf,       \* what load_config returned: Config.concur or the error
    arg,        \* argument of the configuration function under study
    ret,        \* value that function returned
    cmd,        \* "sync" or "pull": the subcommand of this run
    registry,   \* Config.repos: sequence of [name, sel], unique names
    names,      \* [some, list]: Option<&Vec<&str>> of sync, the dirs of pull
    pos,        \* number of items the scan loop has consumed
    yielded,    \* items ReposIter::next has returned so far (sync)
    isDir,      \* the file system: which names are existing directories
    K,          \* permits the semaphore was created with
    avail,      \* permits currently available in the semaphore
    tasks,      \* the spawned futures, in the order of `handles`
    notices,    \* lines the scan loop printed (not found / no such directory)
    report,     \* lines the aggregation closure printed
    pc,         \* position of the main thread
    status,     \* what sync / pull returned to main
    exitCode,   \* how the process ended
    envSteps    \* directory changes made so far by the external actor

vars == <<file, conf, arg, ret, cmd, registry, names, pos, yielded, isDir, K, avail, tasks,
          notices, report, pc, status, exitCode, envSteps>>

-----------------------------------------------------------------------------
(* Bounds of the model *)

MaxNames == 2       \* names (sync) or directories (pull) on the command line
MaxK     == 1       \* permit counts 1..MaxK are explored besides the literal
MaxEnv   == 1       \* directory changes by the external actor in one run
MaxSpecLen == 5     \* characters of a repository spec string
Probe    == 2       \* integers explored on each side of 0 and of u16::MAX

(* Program constants *)

SemaphorePermits == 10      \* Semaphore::new(10)
DefaultConcurrency == 10    \* Concurrency::default()
U16Max == 65535             \* the largest value of Concurrency's u16

Dirs     == {"a", "b"}              \* directories: registry keys, pull targets
ArgNames == Dirs \cup {"c"}         \* names a caller of sync may request
Tags     == {"Explicit", "Optional"}

-----------------------------------------------------------------------------
(* Data *)

SeqsUpTo(S, n) == UNION {[1..k -> S] : k \in 0..n}

Range(s) == {s[k] : k \in 1..Len(s)}

Injective(s) == \A j, k \in 1..Len(s) : s[j] = s[k] => j = k

\* GitHub::new(user, project); every registry entry `n` is declared as
\* "u-n/n.el" so that distinct entries have distinct descriptors.
GitHub(user, project) == [user |-> user, project |-> project]

RepoOf(n) == GitHub("u-" \o n, n \o ".el")

\* Selection::Explicit(repo) / Selection::Optional(repo)
Selection(tag, repo) == [tag |-> tag, repo |-> repo]

\* the declarations of the configuration file explored here: one entry of
\* [repositories] followed by one of [optional-repositories]
Declared ==
    <<[name |-> "a", tag |-> "Explicit"], [name |-> "b", tag |-> "Optional"]>>

\* the registries a Config can hold: an IndexMap has unique keys, in the
\* order of insertion; the prefixes of Declared, the empty registry included
Registries ==
    {r \in SeqsUpTo([name : Dirs, tag : Tags], Len(Declared)) :
        /\ Injective([k \in 1..Len(r) |-> r[k].name])
        /\ \A k \in 1..Len(r) : r[k] = Declared[k]}

Entry(e) == [name |-> e.name, sel |-> Selection(e.tag, RepoOf(e.name))]

RegistryOf(r) == [k \in 1..Len(r) |-> Entry(r[k])]

\* IndexMap::get: position of the entry declared under `n`, 0 when absent
IndexOf(reg, n) ==
    IF \E k \in 1..Len(reg) : reg[k].name = n
    THEN CHOOSE k \in 1..Len(reg) : reg[k].name = n
    ELSE 0

-----------------------------------------------------------------------------
(* Config::repos and ReposIter::next *)

NoItem == [kind |-> "None"]

OkItem(n, sel) == [kind |-> "Ok", name |-> n, sel |-> sel]

\* Err(RepoNotFound { name })
NotFoundItem(n) == [kind |-> "NotFound", name |-> n]

\* faulty variant: an unknown name ends the iteration
SelectedNext_stop_at_unknown(reg, list, p) ==
    IF p < Len(list) /\ IndexOf(reg, list[p + 1]) # 0
    THEN OkItem(list[p + 1],
                Selection("Explicit", reg[IndexOf(reg, list[p + 1])].sel.repo))
    ELSE NoItem

\* faulty variant: a requested Optional entry keeps its tag
SelectedNext_keep_tag(reg, list, p) ==
    IF p < Len(list)
    THEN IF IndexOf(reg, list[p + 1]) # 0
         THEN OkItem(list[p + 1], reg[IndexOf(reg, list[p + 1])].sel)
         ELSE NotFoundItem(list[p + 1])
    ELSE NoItem

\* ReposIter::Selected: the next requested name is looked up; an Optional
\* entry is handed out as Explicit, an unknown name as RepoNotFound
SelectedNext(reg, list, p) ==
    IF p < Len(list)
    THEN LET n == list[p + 1]
             k == IndexOf(reg, n)
         IN  IF k # 0
             THEN IF reg[k].sel.tag = "Optional"
                  THEN OkItem(n, Selection("Explicit", reg[k].sel.repo))
                  ELSE OkItem(n, reg[k].sel)
             ELSE NotFoundItem(n)
    ELSE NoItem

\* faulty variant: every entry is handed out as Explicit
AllNext_explicit(reg, p) ==
    IF p < Len(reg)
    THEN OkItem(reg[p + 1].name, Selection("Explicit", reg[p + 1].sel.repo))
    ELSE NoItem

\* ReposIter::All: the entries of the map in insertion order, tags unchanged
AllNext(reg, p) ==
    IF p < Len(reg) THEN OkItem(reg[p + 1].name, reg[p + 1].sel) ELSE NoItem

\* ReposIter::next on the iterator Config::repos(names) built, after `p`
\* items have been taken from it
ReposIterNext(reg, nm, p) ==
    IF nm.some THEN SelectedNext(reg, nm.list, p) ELSE AllNext(reg, p)

-----------------------------------------------------------------------------
(* The tasks: BoundedSync (sync) and BoundedProc<BoundedPull> (pull) *)

\* BoundedSync::new / BoundedProc::new: no permit, no inner future.
\*   permit   : "idle" (Permit::new or released), "waiting" (queued on the
\*              semaphore), "acquired"
\*   inner    : "none", or the git subprocess of the inner future
\*   result   : "pending" until the task's future completes, then
\*              "Success" / "Error" (Ok(Ready(GitResult))) or "Err"
\*   releases : calls of Permit::release made by this task
\*   atSched  : whether the directory existed when the task was spawned
\*   works    : the units of work (git subprocesses) this task has created
NewTask(dir, repo, exists) ==
    [dir |-> dir, repo |-> repo, permit |-> "idle", inner |-> "none",
     result |-> "pending", releases |-> 0, atSched |-> exists,
     works |-> <<>>]

TaskIds == 1..Len(tasks)

Completed(t) == t.result # "pending"

\* faulty variant: a permit is handed out even when none is left
poll_acquire_unbounded(permits) == TRUE

\* Permit::poll_acquire: Ready iff the semaphore has a permit to hand out
poll_acquire(permits) == permits > 0

\* faulty variant: the branch is the one the directory had at scheduling time
sync_one_at_spawn(t, fs) == IF t.atSched THEN "pull" ELSE "clone"

\* faulty variant: the repository is cloned whether or not it is there
sync_one_always_clone(t, fs) == "clone"

\* sync_one: pull when the directory exists (now, on the file system `fs`),
\* clone otherwise
sync_one(t, fs) == IF fs[t.dir] THEN "pull" ELSE "clone"

\* BoundedPull::run: always a pull
BoundedPullRun(t, fs) == "pull"

\* process_output polled through the inner future.  The subprocess may still
\* be running (NotReady), have exited with status 0 (Success(key)), have
\* exited with another status (Error(key, msg)), or the future may fail with
\* an error that carries no key: the `?` on the launch (io::Error) and on
\* String::from_utf8.  Error(key, msg) is the value join_handles matches on;
\* the keyless error is the Err that `inner.poll()?` propagates.  A poll
\* that finds a running subprocess still running changes nothing and is
\* left out.
InnerPoll(started) ==
    IF started THEN {"Success", "Error", "Err"}
    ELSE {"NotReady", "Success", "Error", "Err"}

\* Permit::release gives the permit back to the semaphore
Release(permits) == permits + 1

\* faulty variant: a task that finds no permit starts its work all the same
Parked_with_work(t) == [t EXCEPT !.permit = "waiting", !.inner = "pull"]

\* try_ready!(self.permit.poll_acquire(..)) returning NotReady: the task is
\* queued on the semaphore and the poll ends there
Parked(t) == [t EXCEPT !.permit = "waiting"]

\* faulty variant: the created work is not kept
Stored_dropped(work) == "none"

\* self.inner = Some(inner)
Stored(work) == work

\* The body shared by BoundedSync::poll and BoundedProc::poll, for task i
\* whose unit of work, if it has to be created in this poll, is `work`.
\*   1. without a permit: try_ready!(poll_acquire) returns NotReady when
\*      the semaphore is empty;
\*   2. with the permit: poll the inner future, creating it first when
\*      there is none; an Err of the inner poll returns through `?`,
\*      before `self.inner = Some(inner)` and before the release;
\*   3. when the inner future is ready, release the permit.
PollTask(i, work) ==
    LET t == tasks[i] IN
    /\ ~Completed(t)
    /\ \/ /\ t.permit = "idle"
          /\ ~poll_acquire(avail)
          /\ tasks' = [tasks EXCEPT ![i] = Parked(t)]
          /\ UNCHANGED <<avail, isDir>>
       \/ /\ t.permit = "acquired" \/ poll_acquire(avail)
          /\ LET held    == IF t.permit = "acquired" THEN avail ELSE avail - 1
                 started == t.inner # "none"
                 git     == IF started THEN t.inner ELSE work
                 kept    == IF started THEN t.inner ELSE Stored(work)
                 made    == IF started THEN t.works ELSE Append(t.works, work)
             IN  \E r \in InnerPoll(started) :
                   CASE r = "NotReady" ->
                          /\ tasks' = [tasks EXCEPT ![i].permit = "acquired",
                                                    ![i].inner = kept,
                                                    ![i].works = made]
                          /\ avail' = held
                          /\ UNCHANGED isDir
                     [] r = "Err" ->
                          /\ tasks' = [tasks EXCEPT ![i].permit = "acquired",
                                                    ![i].result = "Err",
                                                    ![i].works = made]
                          /\ avail' = held
                          /\ UNCHANGED isDir
                     [] OTHER ->
                          /\ tasks' = [tasks EXCEPT
                                          ![i].permit = "idle",
                                          ![i].inner = kept,
                                          ![i].works = made,
                                          ![i].result = r,
                                          ![i].releases = t.releases + 1]
                          /\ avail' = Release(held)
                          /\ isDir' = IF git = "clone" /\ r = "Success"
                                      THEN [isDir EXCEPT ![t.dir] = TRUE]
                                      ELSE isDir
    /\ UNCHANGED <<file, conf, arg, ret, cmd, registry, names, pos, yielded, K, notices, report,
                   pc, status, exitCode, envSteps>>

\* BoundedSync::poll: the unit of work is sync_one(dir, repo, git)
BoundedSyncPoll(i) ==
    /\ cmd = "sync"
    /\ PollTask(i, sync_one(tasks[i], isDir))

\* BoundedProc::poll with R = BoundedPull: the unit of work is run()
BoundedProcPoll(i) ==
    /\ cmd = "pull"
    /\ PollTask(i, BoundedPullRun(tasks[i], isDir))

-----------------------------------------------------------------------------
(* The main thread *)

NotFoundLine(n) == [kind |-> "RepoNotFound", key |-> n]

NoSuchDirLine(d) == [kind |-> "NoSuchDirectory", key |-> d]

Banner(name) == [kind |-> "banner", name |-> name]

FailureLine(key) == [kind |-> "failure", key |-> key]

\* faulty variant: every resolved entry is scheduled
Scheduled_always(sel, exists) == TRUE

\* sync, the match on the selection: an Explicit entry is always a target,
\* an Optional one only if Path::new(dir).is_dir(), else `continue`
Scheduled(sel, exists) == sel.tag = "Explicit" \/ exists

\* sync: one turn of `for result in cfg.repos(names)`, or the end of the loop
SyncScan ==
    /\ cmd = "sync"
    /\ pc = "scan"
    /\ LET item == ReposIterNext(registry, names, pos) IN
       CASE item.kind = "None" ->
              /\ pc' = "shutdown"
              /\ UNCHANGED <<pos, yielded, tasks, notices>>
         [] item.kind = "NotFound" ->
              /\ notices' = Append(notices, NotFoundLine(item.name))
              /\ pos' = pos + 1
              /\ yielded' = Append(yielded, item)
              /\ UNCHANGED <<pc, tasks>>
         [] OTHER ->
              /\ pos' = pos + 1
              /\ yielded' = Append(yielded, item)
              /\ tasks' = IF Scheduled(item.sel, isDir[item.name])
                          THEN Append(tasks, NewTask(item.name, item.sel.repo,
                                                     isDir[item.name]))
                          ELSE tasks
              /\ UNCHANGED <<pc, notices>>
    /\ UNCHANGED <<file, conf, arg, ret, cmd, registry, names, isDir, K, avail, report, status,
                   exitCode, envSteps>>

\* faulty variant: every requested directory is a target
PullTarget_always(exists) == TRUE

\* pull, `if !path.is_dir() { ...; continue; }`: only an existing directory
\* is a target
PullTarget(exists) == exists

\* pull: one turn of `for dir in dirs`, or the end of the loop
PullScan ==
    /\ cmd = "pull"
    /\ pc = "scan"
    /\ IF pos < Len(names.list)
       THEN LET dir == names.list[pos + 1] IN
            /\ pos' = pos + 1
            /\ IF ~PullTarget(isDir[dir])
               THEN /\ notices' = Append(notices, NoSuchDirLine(dir))
                    /\ UNCHANGED tasks
               ELSE /\ tasks' = Append(tasks, NewTask(dir, "none", TRUE))
                    /\ UNCHANGED notices
            /\ UNCHANGED pc
       ELSE /\ pc' = "shutdown"
            /\ UNCHANGED <<pos, tasks, notices>>
    /\ UNCHANGED <<file, conf, arg, ret, cmd, registry, names, yielded, isDir, K, avail, report,
                   status, exitCode, envSteps>>

\* faulty variant: the barrier does not wait for the spawned futures
PoolIdle_no_wait(ts) == TRUE

\* the pool is idle when every spawned future has completed
PoolIdle(ts) == \A i \in 1..Len(ts) : Completed(ts[i])

\* pool.shutdown_on_idle().wait()
ShutdownOnIdle ==
    /\ pc = "shutdown"
    /\ PoolIdle(tasks)
    /\ pc' = "join"
    /\ UNCHANGED <<file, conf, arg, ret, cmd, registry, names, pos, yielded, isDir, K, avail, tasks,
                   notices, report, status, exitCode, envSteps>>

\* join_all(handles): Err as soon as one handle resolved to Err, else the
\* results in the order of the handles
JoinFailed(ts) == \E i \in 1..Len(ts) : ts[i].result = "Err"

\* faulty variant: the banner comes before every failure line
RECURSIVE Lines_banner_each(_, _, _)
Lines_banner_each(name, ts, has_error) ==
    IF ts = <<>> THEN <<>>
    ELSE IF Head(ts).result = "Error"
         THEN <<Banner(name), FailureLine(Head(ts).dir)>>
              \o Lines_banner_each(name, Tail(ts), TRUE)
         ELSE Lines_banner_each(name, Tail(ts), has_error)

RECURSIVE Lines(_, _, _)
\* the closure given to `map`: the banner before the first GitResult::Error,
\* then one line per GitResult::Error
Lines(name, ts, has_error) ==
    IF ts = <<>> THEN <<>>
    ELSE IF Head(ts).result = "Error"
         THEN (IF has_error THEN <<>> ELSE <<Banner(name)>>)
              \o <<FailureLine(Head(ts).dir)>>
              \o Lines(name, Tail(ts), TRUE)
         ELSE Lines(name, Tail(ts), has_error)

\* what sync returns after join_all(..).map(..).wait().unwrap(); Ok(())
SyncReturn(ts) == IF JoinFailed(ts) THEN "panic" ELSE "Ok"

\* what pull returns: the value of join_all(..).map(..).wait()
PullReturn(ts) == IF JoinFailed(ts) THEN "Err" ELSE "Ok"

\* future::join_all(handles).map(|results| ...).wait() and the return
JoinAll ==
    /\ pc = "join"
    /\ report' = IF JoinFailed(tasks) THEN <<>> ELSE Lines(cmd, tasks, FALSE)
    /\ status' = IF cmd = "sync" THEN SyncReturn(tasks) ELSE PullReturn(tasks)
    /\ pc' = "returned"
    /\ UNCHANGED <<file, conf, arg, ret, cmd, registry, names, pos, yielded, isDir, K, avail, tasks,
                   notices, exitCode, envSteps>>

\* main: an Err of the subcommand is printed by unwrap_or_else and main
\* returns normally (exit status 0, "success"); a panic of the subcommand
\* ends the process abnormally
MainExit(st) == IF st = "panic" THEN "panicked" ELSE "success"

Main ==
    /\ pc = "returned"
    /\ exitCode' = MainExit(status)
    /\ pc' = "exited"
    /\ UNCHANGED <<file, conf, arg, ret, cmd, registry, names, pos, yielded, isDir, K, avail, tasks,
                   notices, report, status, envSteps>>

\* an actor outside the program creates or removes directory d between the
\* scheduling of an operation on d and its start: the only window in which
\* the program has yet to read d (changes before the scan are the choice of
\* isDir in Init, later ones are never read)
External(d) ==
    /\ envSteps < MaxEnv
    /\ \E i \in TaskIds :
          tasks[i].dir = d /\ tasks[i].inner = "none" /\ ~Completed(tasks[i])
    /\ isDir' = [isDir EXCEPT ![d] = ~isDir[d]]
    /\ envSteps' = envSteps + 1
    /\ UNCHANGED <<file, conf, arg, ret, cmd, registry, names, pos, yielded, K, avail, tasks,
                   notices, report, pc, status, exitCode>>

-----------------------------------------------------------------------------
(* Configuration: config/internal.rs and parse_config *)

\* A string that the program scans is a sequence of characters; Str gives
\* the text it denotes.
Chars == {"o", "p", "/"}

Texts == SeqsUpTo(Chars, MaxSpecLen)

RECURSIVE Str(_)
Str(s) == IF s = <<>> THEN "" ELSE Head(s) \o Str(Tail(s))

\* RepoSpec::Simple(s) / RepoSpec::Normal { type_, repo }
Simple(s) == [form |-> "Simple", s |-> s]

Normal(type, repo) == [form |-> "Normal", type |-> type, repo |-> repo]

RepoTypes == {"github", "bitbucket"}

RepoSpecs ==
    {Simple(s) : s \in Texts} \cup {Normal(t, s) : t \in RepoTypes, s \in Texts}

\* ConfigError::InvalidRepo { name } / ConfigError::UnknownType { type_ }
InvalidRepo(name) == [ok |-> FALSE, error |-> "InvalidRepo", name |-> name]

UnknownType(type) == [ok |-> FALSE, error |-> "UnknownType", name |-> type]

NoCapture == [matched |-> FALSE]

\* the longest prefix of s without '/': what [^/]+ consumes from the start
RECURSIVE Segment(_)
Segment(s) ==
    IF s = <<>> \/ Head(s) = "/" THEN <<>> ELSE <<Head(s)>> \o Segment(Tail(s))

\* faulty variant: everything after the first '/' is the second group
RE_captures_first_slash(s) ==
    LET g1   == Segment(s)
        rest == SubSeq(s, Len(g1) + 1, Len(s))
    IN  IF g1 = <<>> THEN NoCapture
        ELSE IF rest = <<>>
        THEN [matched |-> TRUE, g1 |-> g1, has2 |-> FALSE, g2 |-> <<>>]
        ELSE IF Len(rest) > 1
        THEN [matched |-> TRUE, g1 |-> g1, has2 |-> TRUE, g2 |-> Tail(rest)]
        ELSE NoCapture

\* faulty variant: a '/' at the end of the text is ignored
RE_captures_trailing_slash(s) ==
    LET g1   == Segment(s)
        rest == SubSeq(s, Len(g1) + 1, Len(s))
    IN  IF g1 = <<>> THEN NoCapture
        ELSE IF rest = <<>> \/ rest = <<"/">>
        THEN [matched |-> TRUE, g1 |-> g1, has2 |-> FALSE, g2 |-> <<>>]
        ELSE IF Tail(rest) # <<>> /\ Segment(Tail(rest)) = Tail(rest)
        THEN [matched |-> TRUE, g1 |-> g1, has2 |-> TRUE, g2 |-> Tail(rest)]
        ELSE NoCapture

\* RE.captures(spec) for ^([^/]+)(?:/([^/]+))?$ : group 1 is a non-empty
\* run without '/'; then either the end of the text, or one '/' and a
\* non-empty run without '/' (group 2) up to the end of the text
RE_captures(s) ==
    LET g1   == Segment(s)
        rest == SubSeq(s, Len(g1) + 1, Len(s))
    IN  IF g1 = <<>> THEN NoCapture
        ELSE IF rest = <<>>
        THEN [matched |-> TRUE, g1 |-> g1, has2 |-> FALSE, g2 |-> <<>>]
        ELSE IF Tail(rest) # <<>> /\ Segment(Tail(rest)) = Tail(rest)
        THEN [matched |-> TRUE, g1 |-> g1, has2 |-> TRUE, g2 |-> Tail(rest)]
        ELSE NoCapture

\* faulty variant: the repo string of any hosting kind is taken
SpecOf_any_type(val) ==
    IF val.form = "Simple" THEN [ok |-> TRUE, spec |-> val.s]
    ELSE [ok |-> TRUE, spec |-> val.repo]

\* try_from, `let spec = match val`: the string of the simple form, the
\* repo string of the normal form if its type is "github", else the error
SpecOf(val) ==
    IF val.form = "Simple" THEN [ok |-> TRUE, spec |-> val.s]
    ELSE IF val.type = "github" THEN [ok |-> TRUE, spec |-> val.repo]
    ELSE UnknownType(val.type)

\* faulty variant: a missing project defaults to the owner
TryFrom_owner_default(key, val) ==
    LET sp == SpecOf(val) IN
    IF ~sp.ok THEN sp
    ELSE LET cap == RE_captures(sp.spec) IN
         IF cap.matched
         THEN [ok |-> TRUE,
               repo |-> GitHub(Str(cap.g1),
                               IF cap.has2 THEN Str(cap.g2) ELSE Str(cap.g1))]
         ELSE InvalidRepo(Str(sp.spec))

\* impl TryFrom<(&str, &RepoSpec)> for Repo
TryFrom(key, val) ==
    LET sp == SpecOf(val) IN
    IF ~sp.ok THEN sp
    ELSE LET cap == RE_captures(sp.spec) IN
         IF cap.matched
         THEN [ok |-> TRUE,
               repo |-> GitHub(Str(cap.g1),
                               IF cap.has2 THEN Str(cap.g2) ELSE key)]
         ELSE InvalidRepo(Str(sp.spec))

\* the value of the `concurrency` key as the TOML reader presents it: the
\* key is absent, holds an integer, or holds something else (a string, a
\* float, a boolean)
Absent == [kind |-> "absent"]

IntTok(v) == [kind |-> "int", v |-> v]

OtherTok == [kind |-> "other"]

IntProbes ==
    (-Probe..Probe) \cup {DefaultConcurrency}
        \cup ((U16Max - Probe)..(U16Max + Probe))

ConcurrencyTokens == {Absent, OtherTok} \cup {IntTok(v) : v \in IntProbes}

TomlError == [ok |-> FALSE, error |-> "Toml", name |-> "concurrency"]

\* `let value: u16 = Deserialize::deserialize(d)?`: an integer in the range
\* of u16, anything else is an error of the reader
DeserializeU16(tok) ==
    IF tok.kind = "int" /\ tok.v >= 0 /\ tok.v <= U16Max
    THEN [ok |-> TRUE, value |-> tok.v]
    ELSE TomlError

\* faulty variant: zero is let through
DeserializeConcurrency_zero(tok) == DeserializeU16(tok)

\* impl Deserialize for Concurrency
DeserializeConcurrency(tok) ==
    LET r == DeserializeU16(tok) IN
    IF ~r.ok THEN r
    ELSE IF r.value = 0 THEN TomlError
    ELSE r

\* ConfigInternal.concurrency with #[serde(default)], read back through
\* Config::concurrency
ConcurrencyField(tok) ==
    IF tok.kind = "absent" THEN [ok |-> TRUE, value |-> DefaultConcurrency]
    ELSE DeserializeConcurrency(tok)

\* faulty variant: the entry always goes to the end
Insert_append(map, key, sel) == Append(map, [name |-> key, sel |-> sel])

\* IndexMap::insert: a new key goes to the end, a known key keeps its
\* position and takes the new value
Insert(map, key, sel) ==
    IF IndexOf(map, key) = 0
    THEN Append(map, [name |-> key, sel |-> sel])
    ELSE [map EXCEPT ![IndexOf(map, key)] = [name |-> key, sel |-> sel]]

\* faulty variant: an entry that fails to resolve is left out
RECURSIVE ParseSection_skip_bad(_, _, _)
ParseSection_skip_bad(tag, entries, acc) ==
    IF entries = <<>> THEN acc
    ELSE LET e == Head(entries)
             r == TryFrom(e.key, e.val)
         IN  IF ~r.ok THEN ParseSection_skip_bad(tag, Tail(entries), acc)
             ELSE ParseSection_skip_bad(tag, Tail(entries),
                      [ok |-> TRUE,
                       map |-> Insert(acc.map, e.key, Selection(tag, r.repo))])

\* parse_config, one `for (key, val) in ...` loop: each entry is resolved
\* and inserted with the tag of its section; the first failure is returned
RECURSIVE ParseSection(_, _, _)
ParseSection(tag, entries, acc) ==
    IF entries = <<>> THEN acc
    ELSE LET e == Head(entries)
             r == TryFrom(e.key, e.val)
         IN  IF ~r.ok THEN r
             ELSE ParseSection(tag, Tail(entries),
                      [ok |-> TRUE,
                       map |-> Insert(acc.map, e.key, Selection(tag, r.repo))])

EmptyMap == [ok |-> TRUE, map |-> <<>>]

\* parse_config: toml::from_str (of which the concurrency key is the part
\* that can fail here), then [repositories], then [optional-repositories]
ParseConfig(f) ==
    LET c == ConcurrencyField(f.concurrency) IN
    IF ~c.ok THEN c
    ELSE LET r1 == ParseSection("Explicit", f.repositories, EmptyMap) IN
         IF ~r1.ok THEN r1
         ELSE LET r2 == IF f.optional.some
                        THEN ParseSection("Optional", f.optional.list, r1)
                        ELSE r1
              IN  IF ~r2.ok THEN r2
                  ELSE [ok |-> TRUE, concur |-> c.value, repos |-> r2.map]

NoFile == [loaded |-> FALSE]

NoConf == [ok |-> FALSE, error |-> "none", name |-> ""]

NoArg == [fn |-> "none"]

NoRet == [set |-> FALSE]

\* main: load_config(".gitcop.toml"); on Err the message is printed and the
\* process exits with status 1, else the subcommand is entered with cfg
LoadExit == "failure"

LoadConfig ==
    /\ pc = "load"
    /\ LET r == ParseConfig(file) IN
       IF r.ok
       THEN /\ conf' = [ok |-> TRUE, concur |-> r.concur]
            /\ registry' = r.repos
            /\ pc' = "scan"
            /\ UNCHANGED exitCode
       ELSE /\ conf' = r
            /\ pc' = "exited"
            /\ exitCode' = LoadExit
            /\ UNCHANGED registry
    /\ UNCHANGED <<file, arg, ret, cmd, names, pos, yielded, isDir, K, avail,
                   tasks, notices, report, status, envSteps>>

\* the loop body of parse_config applied to one entry of one section
ParseEntry ==
    /\ arg.fn = "parse_entry" /\ ~ret.set
    /\ ret' = [set |-> TRUE,
               val |-> ParseSection(arg.tag, <<[key |-> arg.key, val |-> arg.val]>>,
                                    EmptyMap)]
    /\ UNCHANGED <<file, conf, arg, cmd, registry, names, pos, yielded, isDir,
                   K, avail, tasks, notices, report, pc, status, exitCode,
                   envSteps>>

\* the concurrency key read by toml::from_str and back by Config::concurrency
ParseConcurrency ==
    /\ arg.fn = "concurrency" /\ ~ret.set
    /\ ret' = [set |-> TRUE, val |-> ConcurrencyField(arg.tok)]
    /\ UNCHANGED <<file, conf, arg, cmd, registry, names, pos, yielded, isDir,
                   K, avail, tasks, notices, report, pc, status, exitCode,
                   envSteps>>

\* parse_config applied to the contents of a file
ParseFile ==
    /\ arg.fn = "parse_config" /\ ~ret.set
    /\ ret' = [set |-> TRUE, val |-> ParseConfig(arg.file)]
    /\ UNCHANGED <<file, conf, arg, cmd, registry, names, pos, yielded, isDir,
                   K, avail, tasks, notices, report, pc, status, exitCode,
                   envSteps>>

\* faulty variant: the ".git" suffix is left out
url_no_suffix(repo) == "https://github.com/" \o repo.user \o "/" \o repo.project

\* Remote::url for GitHub: the pushes onto String::from("https://github.com/")
url(repo) ==
    "https://github.com/" \o repo.user \o "/" \o repo.project \o ".git"

\* Remote::url for Selection<Repo>: the url of the repo in either arm
SelectionUrl(sel) ==
    IF sel.tag = "Explicit" THEN url(sel.repo) ELSE url(sel.repo)

\* Remote::url applied to a selection
RenderUrl ==
    /\ arg.fn = "url" /\ ~ret.set
    /\ ret' = [set |-> TRUE, val |-> SelectionUrl(arg.sel)]
    /\ UNCHANGED <<file, conf, arg, cmd, registry, names, pos, yielded, isDir,
                   K, avail, tasks, notices, report, pc, status, exitCode,
                   envSteps>>

-----------------------------------------------------------------------------
(* Specification *)

\* Semaphore::new(10) in sync and pull.  BoundedSync and BoundedProc take
\* the semaphore as an argument; besides the literal, the small permit
\* counts are explored so that operations outnumber permits within the
\* bounds of the model.
PermitCounts == (1..MaxK) \cup {SemaphorePermits}

Init ==
    /\ file = NoFile
    /\ conf = NoConf
    /\ arg = NoArg
    /\ ret = NoRet
    /\ cmd \in {"sync", "pull"}
    /\ registry \in {RegistryOf(r) : r \in Registries}
    /\ names \in [some : BOOLEAN, list : SeqsUpTo(ArgNames, MaxNames)]
    /\ ~names.some => names.list = <<>>
    \* pull takes directories and never reads the registry
    /\ cmd = "pull" => /\ names.some
                       /\ Range(names.list) \subseteq Dirs
                       /\ registry = <<>>
    /\ pos = 0
    /\ yielded = <<>>
    /\ isDir \in [Dirs -> BOOLEAN]
    /\ K \in PermitCounts
    /\ avail = K
    /\ tasks = <<>>
    /\ notices = <<>>
    /\ report = <<>>
    /\ pc = "scan"
    /\ status = "none"
    /\ exitCode = "none"
    /\ envSteps = 0

Next ==
    \/ SyncScan
    \/ PullScan
    \/ \E i \in TaskIds : BoundedSyncPoll(i)
    \/ \E i \in TaskIds : BoundedProcPoll(i)
    \/ ShutdownOnIdle
    \/ JoinAll
    \/ Main
    \/ \E d \in Dirs : External(d)

Spec == Init /\ [][Next]_vars

\* a run spawns at most one task per registry entry or per argument
MaxTasks ==
    IF Cardinality(Dirs) > MaxNames THEN Cardinality(Dirs) ELSE MaxNames

\* the pool polls every task that can make progress and the main thread runs
FairSpec ==
    /\ Spec
    /\ \A i \in 1..MaxTasks :
          /\ WF_vars(i \in TaskIds /\ BoundedSyncPoll(i))
          /\ WF_vars(i \in TaskIds /\ BoundedProcPoll(i))
    /\ WF_vars(SyncScan) /\ WF_vars(PullScan)
    /\ WF_vars(ShutdownOnIdle) /\ WF_vars(JoinAll) /\ WF_vars(Main)

\* entries of configuration files: "o", "o/p", "o/p/o", a bitbucket entry
GoodSpec == Simple(<<"o">>)

SlashSpec == Simple(<<"o", "/", "p">>)

BadSpec == Simple(<<"o", "/", "p", "/", "o">>)

OtherKind == Normal("bitbucket", <<"o">>)

\* a table of the file: distinct keys, each with a spec
Sections ==
    {t \in SeqsUpTo([key : Dirs, val : {GoodSpec, SlashSpec, BadSpec}],
                    Cardinality(Dirs)) :
        \A j, k \in 1..Len(t) : t[j].key = t[k].key => j = k}

ParseFiles ==
    [loaded : {TRUE},
     concurrency : {Absent},
     repositories : Sections,
     optional : {[some |-> FALSE, list |-> <<>>]}
                    \cup {[some |-> TRUE, list |-> t] : t \in Sections}]

\* descriptors as in the tests of parse_config
Descriptors ==
    {GitHub(u, p) : u \in {"jweigley", "magnars"},
                    p \in {"use-package", "dash.el"}}

\* The configuration functions on their own: Init draws the argument, the
\* one step applies the function.
ParseArgs ==
    {[fn |-> "parse_entry", tag |-> t, key |-> k, val |-> v] :
        t \in Tags, k \in Dirs, v \in RepoSpecs}
    \cup {[fn |-> "concurrency", tok |-> t] : t \in ConcurrencyTokens}
    \cup {[fn |-> "parse_config", file |-> f] : f \in ParseFiles}
    \cup {[fn |-> "url", sel |-> Selection(t, d)] :
             t \in Tags, d \in Descriptors}

InitParse ==
    /\ arg \in ParseArgs
    /\ ret = NoRet
    /\ file = NoFile
    /\ conf = NoConf
    /\ cmd = "sync"
    /\ registry = <<>>
    /\ names = [some |-> FALSE, list |-> <<>>]
    /\ pos = 0
    /\ yielded = <<>>
    /\ isDir = [d \in Dirs |-> FALSE]
    /\ K = SemaphorePermits
    /\ avail = K
    /\ tasks = <<>>
    /\ notices = <<>>
    /\ report = <<>>
    /\ pc = "parse"
    /\ status = "none"
    /\ exitCode = "none"
    /\ envSteps = 0

NextParse == ParseEntry \/ ParseConcurrency \/ ParseFile \/ RenderUrl

SpecParse == InitParse /\ [][NextParse]_vars

\* A whole run of the program from the configuration file on: main loads
\* .gitcop.toml and then enters sync or pull.
LoadFiles ==
    [loaded : {TRUE},
     concurrency : {Absent, IntTok(0), IntTok(SemaphorePermits - 1)},
     repositories : {<<[key |-> "a", val |-> GoodSpec]>>,
                     <<[key |-> "a", val |-> SlashSpec],
                       [key |-> "b", val |-> BadSpec]>>,
                     <<[key |-> "a", val |-> OtherKind]>>},
     optional : {[some |-> FALSE, list |-> <<>>],
                 [some |-> TRUE, list |-> <<[key |-> "b", val |-> GoodSpec]>>],
                 [some |-> TRUE, list |-> <<[key |-> "b", val |-> BadSpec]>>]}]

\* command lines of at most one name
LoadArgs == {<<>>} \cup {<<n>> : n \in ArgNames}

InitLoad ==
    /\ file \in LoadFiles
    /\ conf = NoConf
    /\ arg = NoArg
    /\ ret = NoRet
    /\ cmd \in {"sync", "pull"}
    /\ registry = <<>>
    /\ names \in [some : BOOLEAN, list : LoadArgs]
    /\ ~names.some => names.list = <<>>
    /\ cmd = "pull" => /\ names.some
                       /\ names.list # <<>>
                       /\ Range(names.list) \subseteq Dirs
    /\ pos = 0
    /\ yielded = <<>>
    /\ isDir \in [Dirs -> BOOLEAN]
    /\ K = SemaphorePermits
    /\ avail = K
    /\ tasks = <<>>
    /\ notices = <<>>
    /\ report = <<>>
    /\ pc = "load"
    /\ status = "none"
    /\ exitCode = "none"
    /\ envSteps = 0

NextLoad == LoadConfig \/ Next

SpecLoad == InitLoad /\ [][NextLoad]_vars

-----------------------------------------------------------------------------
(* Properties *)

Holders == {i \in TaskIds : tasks[i].permit = "acquired"}

Running(i) == tasks[i].permit = "acquired" /\ tasks[i].result = "pending"

PastBarrier == pc \in {"join", "returned", "exited"}

Finished(i) == tasks[i].result \in {"Success", "Error", "Err"}

\* C1: at every moment of a sync or pull run, the operations holding a permit
\* (their clone / pull started and not yet finished) number at most K, the
\* permit count the semaphore was created with, and the semaphore never
\* hands out a permit it does not have.
C1_AtMostKHoldPermit ==
    /\ Cardinality(Holders) <= K
    /\ Cardinality({i \in TaskIds : Running(i)}) <= K
    /\ avail >= 0

\* C1 witness: more operations than permits, all K permits held by running
\* operations and another operation waiting for one.
C1_Witness ==
    /\ Len(tasks) > K
    /\ Cardinality({i \in TaskIds : Running(i)}) = K
    /\ \E i \in TaskIds : tasks[i].permit = "waiting"

\* C2: every operation that acquired a permit releases it exactly once, and
\* only when its work has finished, whether the work succeeded, failed, or
\* the poll of the inner git future returned an error: a finished operation
\* has released once and holds nothing, an unfinished one has not released.
C2_ReleasedExactlyOnce ==
    \A i \in TaskIds :
        /\ tasks[i].releases <= 1
        /\ tasks[i].releases = 1 => Finished(i)
        /\ Finished(i) => tasks[i].releases = 1 /\ tasks[i].permit # "acquired"

\* C3: under fair scheduling, with every started subprocess exiting, every
\* scheduled operation eventually reaches Done (the scan is over and every
\* spawned operation has finished), whatever the mix of outcomes.
C3_AllEventuallyDone ==
    <>(pc # "scan" /\ \A i \in TaskIds : Finished(i))

\* C4: once the dispatcher is past its join barrier the semaphore holds K
\* permits again, whatever the outcomes of the operations were.
C4_PermitsRestored == PastBarrier => avail = K

\* C5: the dispatcher gets past its barrier and returns only when every
\* operation it scheduled has completed: none is not started, waiting for a
\* permit or running.
C5_ReturnsAfterAllDone ==
    PastBarrier =>
        \A i \in TaskIds :
            /\ tasks[i].result \in {"Success", "Error", "Err"}
            /\ tasks[i].permit # "waiting"
            /\ ~Running(i)

\* C5 witness: the dispatcher has returned from a run of several operations.
C5_Witness == pc = "returned" /\ Len(tasks) >= 2

\* C6: failures are isolated, a failing operation never blocks another one:
\* whenever an operation still has to obtain its permit, a permit is
\* available or is held by an operation that is still running (and will
\* give it back), so the operation can start and run to completion.
C6_FailureNeverBlocks ==
    \A i \in TaskIds :
        (~Finished(i) /\ tasks[i].permit # "acquired") =>
            \/ avail > 0
            \/ \E j \in TaskIds : Running(j)

ReportedKeys ==
    {report[k].key : k \in {j \in 1..Len(report) : report[j].kind = "failure"}}

FailedKeys == {tasks[i].dir : i \in {j \in TaskIds : tasks[j].result \in {"Error", "Err"}}}

NotFoundNames ==
    IF cmd = "sync" /\ names.some
    THEN {n \in Range(names.list) : \A k \in 1..Len(registry) : registry[k].name # n}
    ELSE {}

PrintedKeys ==
    ReportedKeys \cup {notices[k].key : k \in 1..Len(notices)}

\* C7: every operation failure and every NotFound of the run is surfaced:
\* after the join barrier the failing keys reported are exactly the keys of
\* the operations that failed (whatever the kind of failure), and every
\* name that was not found has been printed.
C7_AllFailuresReported ==
    pc \in {"returned", "exited"} =>
        /\ ReportedKeys = FailedKeys
        /\ NotFoundNames \subseteq PrintedKeys

\* C8: the overall status is failure if an operation failed or a requested
\* name was not found, and success otherwise, for the value returned to the
\* caller and for the exit status of the process.
C8_StatusIsFailureIffAnyFailed ==
    pc = "exited" =>
        IF FailedKeys # {} \/ NotFoundNames # {}
        THEN status # "Ok" /\ exitCode # "success"
        ELSE status = "Ok" /\ exitCode = "success"

\* C9: a sync operation chooses clone or pull in the poll in which it starts
\* its work, holding the permit, from the directory's existence at that
\* poll (pull if it exists, clone otherwise), not from its existence when
\* the operation was scheduled.
C9_BranchDecidedAtStart ==
    [][\A i \in TaskIds :
         (cmd = "sync" /\ tasks[i].inner = "none" /\ tasks'[i].inner # "none") =>
            /\ tasks[i].permit = "acquired" \/ avail > 0
            /\ tasks'[i].inner = (IF isDir[tasks[i].dir] THEN "pull" ELSE "clone")
      ]_vars

\* C9 witness: an operation started on the branch opposite to the one the
\* directory's state at scheduling time would have selected.
C9_Witness ==
    /\ cmd = "sync"
    /\ \E i \in TaskIds :
          /\ tasks[i].inner # "none"
          /\ tasks[i].inner # (IF tasks[i].atSched THEN "pull" ELSE "clone")

\* the registry entry declared under n, for a name that is a key
EntryOf(n) == CHOOSE e \in Range(registry) : e.name = n

\* C10: targeted resolution yields one item per requested name, in request
\* order: Ok with the name and its descriptor when the name is a registry
\* key, NotFound with the name otherwise; a NotFound does not end the
\* iteration, which ends exactly after the last requested name.
C10_TargetedResolution ==
    (cmd = "sync" /\ names.some) =>
        /\ Len(yielded) <= Len(names.list)
        /\ pc # "scan" => Len(yielded) = Len(names.list)
        /\ \A k \in 1..Len(yielded) :
              LET n == names.list[k] IN
              /\ yielded[k].name = n
              /\ IF n \in {e.name : e \in Range(registry)}
                 THEN /\ yielded[k].kind = "Ok"
                      /\ yielded[k].sel.repo = EntryOf(n).sel.repo
                 ELSE yielded[k].kind = "NotFound"

\* C10 witness: the scan is over and a NotFound was followed by a resolved
\* name.
C10_Witness ==
    /\ cmd = "sync" /\ names.some /\ pc # "scan"
    /\ \E k \in 1..(Len(yielded) - 1) :
          yielded[k].kind = "NotFound" /\ yielded[k + 1].kind = "Ok"

\* C11: untargeted resolution yields every (name, Selection) pair of the
\* registry exactly once, in declaration order, each with its own tag and
\* descriptor, and nothing for an empty registry.
C11_UntargetedResolution ==
    (cmd = "sync" /\ ~names.some) =>
        /\ Len(yielded) <= Len(registry)
        /\ pc # "scan" => Len(yielded) = Len(registry)
        /\ \A k \in 1..Len(yielded) :
              /\ yielded[k].kind = "Ok"
              /\ yielded[k].name = registry[k].name
              /\ yielded[k].sel.tag = registry[k].sel.tag
              /\ yielded[k].sel.repo = registry[k].sel.repo

\* C11 witness: an untargeted scan is over and has yielded an Explicit entry
\* followed by an Optional one.
C11_Witness ==
    /\ cmd = "sync" /\ ~names.some /\ pc # "scan"
    /\ Len(yielded) = 2
    /\ yielded[1].sel.tag = "Explicit" /\ yielded[2].sel.tag = "Optional"

\* C12: in an untargeted sync, the turn of the scan that resolves an entry
\* schedules an operation for it exactly when the entry is Explicit, or is
\* Optional and its directory exists at that moment.
C12_OptionalGating ==
    [][(cmd = "sync" /\ ~names.some /\ pos' = pos + 1) =>
          LET e == registry[pos + 1] IN
          IF e.sel.tag = "Explicit" \/ isDir[e.name]
          THEN /\ Len(tasks') = Len(tasks) + 1
               /\ tasks'[Len(tasks')].dir = e.name
               /\ tasks'[Len(tasks')].repo = e.sel.repo
          ELSE tasks' = tasks
      ]_vars

\* C12 witness: an untargeted scan of an Explicit and an Optional entry is
\* over; the Explicit one was scheduled although its directory was missing
\* and the Optional one, whose directory was missing, was not.
C12_Witness ==
    /\ cmd = "sync" /\ ~names.some /\ pc # "scan"
    /\ Len(registry) = 2 /\ Len(tasks) = 1
    /\ tasks[1].dir = registry[1].name /\ ~tasks[1].atSched

\* C13: in a targeted sync, a requested name declared Optional is yielded
\* tagged Explicit with the descriptor of its entry and gets an operation
\* scheduled whether or not its directory exists; the registry entry stays
\* Optional.
C13_RequestedOptionalIsExplicit ==
    (cmd = "sync" /\ names.some) =>
        /\ Len(tasks) = Cardinality({k \in 1..Len(yielded) : yielded[k].kind = "Ok"})
        /\ \A k \in 1..Len(yielded) :
              LET j == IndexOf(registry, names.list[k]) IN
              (j # 0 /\ Declared[j].tag = "Optional") =>
                 /\ registry[j].sel.tag = "Optional"
                 /\ yielded[k].kind = "Ok"
                 /\ yielded[k].sel.tag = "Explicit"
                 /\ yielded[k].sel.repo = registry[j].sel.repo
                 /\ \E i \in TaskIds :
                       /\ tasks[i].dir = names.list[k]
                       /\ tasks[i].repo = registry[j].sel.repo

\* C13 witness: the operation of a requested Optional entry whose directory
\* did not exist is cloning it.
C13_Witness ==
    /\ cmd = "sync" /\ names.some
    /\ \E i \in TaskIds :
          LET j == IndexOf(registry, tasks[i].dir) IN
          /\ j # 0 /\ registry[j].sel.tag = "Optional"
          /\ ~tasks[i].atSched /\ tasks[i].inner = "clone"

\* C14: no two operations scheduled in one run target the same directory.
C14_DistinctDirectories ==
    \A i, j \in TaskIds : tasks[i].dir = tasks[j].dir => i = j

\* C15: the semaphore of a run is created with as many permits as the
\* configuration file asks for (Config::concurrency).
C15_PermitsEqualConfigured ==
    (pc # "load" /\ conf.ok) => K = conf.concur

Parsed == arg.fn = "parse_entry" /\ ret.set

TextOf(val) == IF val.form = "Simple" THEN val.s ELSE val.repo

SupportedKind(val) == val.form = "Simple" \/ val.type = "github"

SlashAt(s) == {i \in 1..Len(s) : s[i] = "/"}

OneEntry(key, tag, user, project) ==
    [ok |-> TRUE,
     map |-> <<[name |-> key, sel |-> Selection(tag, GitHub(user, project))]>>]

\* C16: the concurrency setting is accepted exactly for the integers
\* 1..65535 and read back unchanged; it is 10 when absent; 0, negative
\* values, values above 65535 and non-integers are errors; an accepted
\* budget is never below 1.
C16_ConcurrencyParsing ==
    (arg.fn = "concurrency" /\ ret.set) =>
        LET t == arg.tok
            r == ret.val
        IN  /\ t.kind = "absent" => r.ok /\ r.value = DefaultConcurrency
            /\ (t.kind = "int" /\ t.v >= 1 /\ t.v <= U16Max) =>
                   r.ok /\ r.value = t.v
            /\ (t.kind = "int" /\ (t.v < 1 \/ t.v > U16Max)) => ~r.ok
            /\ t.kind = "other" => ~r.ok
            /\ r.ok => r.value >= 1

\* C16 witness: a concurrency of zero has been rejected.
C16_Witness ==
    /\ arg.fn = "concurrency" /\ ret.set
    /\ arg.tok = IntTok(0) /\ ~ret.val.ok

\* C17: a spec string "owner/project" under key k resolves to the
\* descriptor {owner, project} and a bare "owner" to {owner, k}, in both
\* sections (the entry keeps the tag of its section) and in the simple and
\* the normal form.
C17_DescriptorResolution ==
    (Parsed /\ SupportedKind(arg.val)) =>
        LET s  == TextOf(arg.val)
            sl == SlashAt(s)
        IN  /\ (s # <<>> /\ sl = {}) =>
                   ret.val = OneEntry(arg.key, arg.tag, Str(s), arg.key)
            /\ (Cardinality(sl) = 1 /\ 1 \notin sl /\ Len(s) \notin sl) =>
                   LET i == CHOOSE j \in sl : TRUE IN
                   ret.val = OneEntry(arg.key, arg.tag,
                                      Str(SubSeq(s, 1, i - 1)),
                                      Str(SubSeq(s, i + 1, Len(s))))

\* C17 witness: an entry of [optional-repositories] in the normal form with
\* repo "o/p" has been resolved to the descriptor {o, p}, tagged Optional.
C17_Witness ==
    /\ Parsed
    /\ arg.val = Normal("github", <<"o", "/", "p">>) /\ arg.tag = "Optional"
    /\ ret.val = OneEntry(arg.key, "Optional", "o", "p")

\* C18: a spec string with more than one '/' or an empty owner segment
\* fails with InvalidRepo carrying the spec string as written, and nothing
\* is added to the registry.
C18_InvalidRepoSpec ==
    (Parsed /\ SupportedKind(arg.val)) =>
        LET s == TextOf(arg.val) IN
        (s = <<>> \/ Head(s) = "/" \/ Cardinality(SlashAt(s)) > 1) =>
            ret.val = InvalidRepo(Str(s))

\* C18 witness: "o/p/o" has been rejected with its own text.
C18_Witness ==
    /\ Parsed
    /\ arg.val = Simple(<<"o", "/", "p", "/", "o">>)
    /\ ret.val = InvalidRepo("o/p/o")

\* C19: an entry whose hosting kind is not "github" fails with UnknownType
\* carrying that kind, whatever its repo string is.
C19_UnsupportedKind ==
    (Parsed /\ arg.val.form = "Normal" /\ arg.val.type # "github") =>
        ret.val = UnknownType(arg.val.type)

\* C19 witness: a bitbucket entry whose repo string is itself malformed has
\* been rejected for its kind.
C19_Witness ==
    /\ Parsed
    /\ arg.val = Normal("bitbucket", <<"o", "/", "p", "/", "o">>)
    /\ ret.val = UnknownType("bitbucket")

Resolves(e) == TryFrom(e.key, e.val).ok

EntriesOf(f) ==
    Range(f.repositories)
        \cup (IF f.optional.some THEN Range(f.optional.list) ELSE {})

\* C20: if any entry of either section fails to resolve, loading returns an
\* error and no Config, the process exits at once, and no operation is ever
\* scheduled or started in that run; more generally no run schedules
\* anything after a failed load.
C20_ConfigErrorsAreFatal ==
    /\ (pc # "load" /\ \E e \in EntriesOf(file) : ~Resolves(e)) => ~conf.ok
    /\ (pc # "load" /\ ~conf.ok) =>
          /\ pc = "exited" /\ exitCode = LoadExit
          /\ registry = <<>> /\ yielded = <<>> /\ tasks = <<>>
          /\ pos = 0 /\ avail = K

\* C20 witness: a file whose first entry is valid and whose second is not
\* has been rejected with InvalidRepo and the process has exited.
C20_Witness ==
    /\ pc = "exited" /\ ~conf.ok /\ conf.error = "InvalidRepo"
    /\ Len(file.repositories) = 2
    /\ Resolves(file.repositories[1]) /\ ~Resolves(file.repositories[2])
    /\ tasks = <<>>

\* C21: the url of a descriptor {owner, project} is exactly
\* "https://github.com/" + owner + "/" + project + ".git", and the url of a
\* selection is that of its descriptor whatever its tag.
C21_UrlSynthesis ==
    (arg.fn = "url" /\ ret.set) =>
        ret.val = "https://github.com/" \o arg.sel.repo.user \o "/"
                      \o arg.sel.repo.project \o ".git"

\* C21 witness: the Optional selection of {jweigley, use-package} has been
\* rendered to its url.
C21_Witness ==
    /\ arg.fn = "url" /\ ret.set
    /\ arg.sel = Selection("Optional", GitHub("jweigley", "use-package"))
    /\ ret.val = "https://github.com/jweigley/use-package.git"

KeysOf(t) == [k \in 1..Len(t) |-> t[k].key]

IsKeyOf(t, key) == \E k \in 1..Len(t) : t[k].key = key

ValOf(t, key) == t[CHOOSE k \in 1..Len(t) : t[k].key = key].val

OptionalOf(f) == IF f.optional.some THEN f.optional.list ELSE <<>>

NotDeclaredBefore(f, e) == ~IsKeyOf(f.repositories, e.key)

\* C28: the registry parse_config builds has unique keys: the keys of
\* [repositories] in declaration order, then the keys of
\* [optional-repositories] not declared before; a key of
\* [optional-repositories] is tagged Optional with the descriptor of that
\* section, also when [repositories] declares it too, and then it keeps the
\* position of its first declaration.
C28_RegistryOrder ==
    (arg.fn = "parse_config" /\ ret.set /\ ret.val.ok) =>
        LET f   == arg.file
            opt == OptionalOf(f)
            reg == ret.val.repos
            new == SelectSeq(opt, LAMBDA e : NotDeclaredBefore(f, e))
        IN  /\ Injective([k \in 1..Len(reg) |-> reg[k].name])
            /\ [k \in 1..Len(reg) |-> reg[k].name]
                  = KeysOf(f.repositories) \o KeysOf(new)
            /\ \A k \in 1..Len(reg) :
                  LET n == reg[k].name IN
                  IF IsKeyOf(opt, n)
                  THEN reg[k].sel
                         = Selection("Optional", TryFrom(n, ValOf(opt, n)).repo)
                  ELSE reg[k].sel
                         = Selection("Explicit",
                                     TryFrom(n, ValOf(f.repositories, n)).repo)

\* C28 witness: a and b are declared in [repositories] and a again in
\* [optional-repositories] with another spec; the registry lists a, tagged
\* Optional with the later descriptor, before b.
C28_Witness ==
    /\ arg.fn = "parse_config" /\ ret.set /\ ret.val.ok
    /\ KeysOf(arg.file.repositories) = <<"a", "b">>
    /\ arg.file.repositories[1].val = GoodSpec
    /\ arg.file.optional = [some |-> TRUE,
                            list |-> <<[key |-> "a", val |-> SlashSpec]>>]
    /\ Len(ret.val.repos) = 2
    /\ ret.val.repos[1] = [name |-> "a",
                           sel |-> Selection("Optional", GitHub("o", "p"))]
    /\ ret.val.repos[2].name = "b"

\* C29: a spec string whose project segment is present but empty ("owner/")
\* fails with InvalidRepo and does not take the key as project; the key is
\* the project only of a spec without any '/'.
C29_EmptyProjectRejected ==
    (Parsed /\ SupportedKind(arg.val)) =>
        LET s == TextOf(arg.val) IN
        /\ (Len(s) > 1 /\ SlashAt(s) = {Len(s)}) =>
               ret.val = InvalidRepo(Str(s))
        /\ (ret.val.ok /\ SlashAt(s) # {}) =>
               ret.val.map[1].sel.repo.project # arg.key

\* C29 witness: "o/" has been rejected with its own text.
C29_Witness ==
    /\ Parsed
    /\ arg.val = Simple(<<"o", "/">>)
    /\ ret.val = InvalidRepo("o/")

\* the states of an operation: its work has not been created, its work is
\* in progress, its future has completed
Phase(t) ==
    IF t.result # "pending" THEN "Done"
    ELSE IF t.inner # "none" THEN "Running"
    ELSE "NotStarted"

\* C22: an operation only moves forward, NotStarted to Running to Done: its
\* work is created only in a poll that holds a permit (one the semaphore
\* had, kept or given back in that poll), a poll that finds no permit leaves
\* it NotStarted with no work, a running operation holds its permit and
\* never waits again, and a completed one does not change.
C22_ForwardOnly ==
    [][\A i \in TaskIds :
          LET t == tasks[i]
              u == tasks'[i]
          IN  /\ Phase(t) = "Done" => u = t
              /\ Phase(t) = "Running" =>
                    /\ Phase(u) \in {"Running", "Done"}
                    /\ t.permit = "acquired" /\ u.permit # "waiting"
                    /\ u.works = t.works
              /\ u.works # t.works =>
                    /\ t.permit = "acquired" \/ avail > 0
                    /\ u.permit = "acquired" \/ u.releases = t.releases + 1
              /\ (t.permit # "waiting" /\ u.permit = "waiting") =>
                    /\ avail = 0
                    /\ Phase(u) = "NotStarted" /\ u.works = <<>>
              /\ Phase(u) = "Running" => u.permit = "acquired"
      ]_vars

\* C22 witness: one operation is running with its permit while another,
\* which found no permit, is waiting without any work.
C22_Witness ==
    \E i, j \in TaskIds :
        /\ Phase(tasks[i]) = "Running" /\ tasks[i].permit = "acquired"
        /\ tasks[j].permit = "waiting" /\ tasks[j].works = <<>>

\* C23: an operation creates at most one unit of work, a clone or a pull;
\* the inner future it polls is that unit; a completed operation has
\* created exactly one.
C23_OneSubprocess ==
    \A i \in TaskIds :
        LET t == tasks[i] IN
        /\ Len(t.works) <= 1
        /\ Range(t.works) \subseteq {"clone", "pull"}
        /\ t.inner # "none" => t.works = <<t.inner>>
        /\ Completed(t) => Len(t.works) = 1

\* C23 witness: an operation has completed with the one clone it created.
C23_Witness ==
    \E i \in TaskIds :
        /\ tasks[i].result = "Success"
        /\ tasks[i].works = <<"clone">> /\ tasks[i].inner = "clone"

Failing == SelectSeq(tasks, LAMBDA t : t.result = "Error")

Banners == {k \in 1..Len(report) : report[k].kind = "banner"}

NoKey == ""

OutcomeKey(t) == IF t.result \in {"Success", "Error"} THEN t.dir ELSE NoKey

\* C25: every finished operation has an outcome that carries the directory
\* of the operation, success or failure.
C25_OutcomeCarriesKey ==
    \A i \in TaskIds :
        Completed(tasks[i]) => OutcomeKey(tasks[i]) = tasks[i].dir

\* C26: in an untargeted sync with no change from outside, the work of an
\* operation scheduled for an Optional entry is never a clone.
C26_OptionalNeverCloned ==
    (cmd = "sync" /\ ~names.some /\ envSteps = 0) =>
        \A i \in TaskIds :
            registry[IndexOf(registry, tasks[i].dir)].sel.tag = "Optional" =>
                Range(tasks[i].works) \subseteq {"pull"}

\* C26 witness: the operation of an Optional entry has pulled.
C26_Witness ==
    /\ cmd = "sync" /\ ~names.some /\ envSteps = 0
    /\ \E i \in TaskIds :
          /\ registry[IndexOf(registry, tasks[i].dir)].sel.tag = "Optional"
          /\ tasks[i].works = <<"pull">> /\ Completed(tasks[i])

\* C27: in pull, the turn of the scan that meets a missing directory prints
\* its "No such directory" line, spawns nothing, takes no permit and goes on
\* scanning; the turn that meets an existing one spawns one operation on
\* it; operations of pull only pull; and a failure line of the report is
\* always that of an operation that failed.
C27_MissingDirectorySkipped ==
    [][cmd = "pull" =>
          /\ pos' = pos + 1 =>
                LET dir == names.list[pos + 1] IN
                IF isDir[dir]
                THEN /\ Len(tasks') = Len(tasks) + 1
                     /\ SubSeq(tasks', 1, Len(tasks)) = tasks
                     /\ tasks'[Len(tasks')].dir = dir
                     /\ tasks'[Len(tasks')].works = <<>>
                     /\ notices' = notices
                ELSE /\ notices' = Append(notices, NoSuchDirLine(dir))
                     /\ tasks' = tasks /\ avail' = avail /\ pc' = "scan"
          /\ \A i \in TaskIds : Range(tasks'[i].works) \subseteq {"pull"}
          /\ \A k \in 1..Len(report') :
                report'[k].kind = "failure" =>
                    \E i \in TaskIds : /\ tasks[i].dir = report'[k].key
                                       /\ tasks[i].result = "Error"
      ]_vars

\* C27 witness: the first directory was missing and got its line, the
\* second existed and its operation has pulled; the run returned Ok.
C27_Witness ==
    /\ cmd = "pull" /\ Len(names.list) = 2
    /\ notices = <<NoSuchDirLine(names.list[1])>>
    /\ Len(tasks) = 1 /\ tasks[1].dir = names.list[2]
    /\ tasks[1].works = <<"pull">> /\ tasks[1].result = "Success"
    /\ status = "Ok" /\ report = <<>>

====
